---------------------------- MODULE Spec2Model ----------------------------
(***************************************************************************)
(* The read path of the ext2 image inspector of src/main.rs: Ext2::new,    *)
(* Ext2::get_inode, Ext2::read_dir_inode, Ext2::read_file_inode and the    *)
(* shell loop of main.                                                     *)
(*                                                                         *)
(* The device is a flat little-endian byte region.  Every address is a     *)
(* byte offset from the first byte of the device.  The byte region is kept *)
(* sparse: a byte that the image does not set is zero.  Every view the     *)
(* program keeps (&Superblock, &mut [BlockGroupDescriptor], &[u8]) is an    *)
(* address range of the device, as in the zero-copy code.                  *)
(***************************************************************************)
EXTENDS Integers, Sequences, FiniteSets, TLC

(***************************************************************************)
(* Bounds of the model.                                                    *)
(***************************************************************************)
\* inode numbers 0..MaxInode are passed to the library calls
MaxInode == 17
\* the stepped directory decode stops growing its result at this length
MaxRet == 12
\* mkdir stops adding to a group whose dirs_count has come to this
MaxDirs == 3

(***************************************************************************)
(* Program constants.                                                      *)
(***************************************************************************)
EXT2_MAGIC == 61267
EXT2_START_OF_SUPERBLOCK == 1024
EXT2_END_OF_SUPERBLOCK == 2048
\* 1024 << log_block_size
BaseBlockSize == 1024
\* the width of a block number inside a meta-block (byte_offset += 4)
SlotBytes == 4
\* root.direct_pointer has exactly 12 elements
NumDirect == 12
\* mem::size_of::<Inode>() and mem::size_of::<BlockGroupDescriptor>()
SizeofInode == 128
SizeofBlockGroupDescriptor == 32
\* TypePerm::DIRECTORY
DIRECTORY == 16384
\* the root inode
ROOT_INODE == 2

(***************************************************************************)
(* Little-endian memory.                                                   *)
(***************************************************************************)
\* the byte at address a of device d; d.data holds the non-zero bytes
ByteAt(d, a) == IF a \in DOMAIN d.data THEN d.data[a] ELSE 0

\* whether the n bytes at a lie inside the device
InDevice(d, a, n) == a >= 0 /\ a + n <= d.len

U8(d, a) == ByteAt(d, a)
U16(d, a) == ByteAt(d, a) + 256 * ByteAt(d, a + 1)
U32(d, a) == ByteAt(d, a) + 256 * ByteAt(d, a + 1) + 65536 * ByteAt(d, a + 2)
             + 16777216 * ByteAt(d, a + 3)

\* the n bytes at a, as &[u8]
BytesAt(d, a, n) == [i \in 1..n |-> ByteAt(d, a + i - 1)]

\* a NulStr at a: the bytes up to, not including, the first zero byte
RECURSIVE NulStrLen(_, _)
NulStrLen(d, a) == IF ByteAt(d, a) = 0 THEN 0 ELSE 1 + NulStrLen(d, a + 1)

NulStrAt(d, a) == BytesAt(d, a, NulStrLen(d, a))

(***************************************************************************)
(* Layout types (mod structs): the fields the code reads, at their ext2    *)
(* revision 0 offsets.                                                     *)
(***************************************************************************)
SuperblockAt(d, a) ==
    [ inodes_count      |-> U32(d, a),
      blocks_count      |-> U32(d, a + 4),
      free_blocks_count |-> U32(d, a + 12),
      free_inodes_count |-> U32(d, a + 16),
      log_block_size    |-> U32(d, a + 24),
      blocks_per_group  |-> U32(d, a + 32),
      inodes_per_group  |-> U32(d, a + 40),
      magic             |-> U16(d, a + 56),
      fs_id             |-> BytesAt(d, a + 104, 16) ]

BlockGroupDescriptorAt(d, a) ==
    [ block_usage_addr  |-> U32(d, a),
      inode_usage_addr  |-> U32(d, a + 4),
      inode_table_block |-> U32(d, a + 8),
      free_blocks_count |-> U16(d, a + 12),
      free_inodes_count |-> U16(d, a + 14),
      dirs_count        |-> U16(d, a + 16) ]

InodeAt(d, a) ==
    [ type_perm        |-> U16(d, a),
      size_low         |-> U32(d, a + 4),
      direct_pointer   |-> [i \in 1..NumDirect |-> U32(d, a + 40 + 4 * (i - 1))],
      indirect_pointer |-> U32(d, a + 88),
      doubly_indirect  |-> U32(d, a + 92),
      triply_indirect  |-> U32(d, a + 96),
      size_high        |-> U32(d, a + 108) ]

\* name is a NulStr: it runs to the first zero byte, whatever name_length says
DirectoryEntryAt(d, a) ==
    [ inode          |-> U32(d, a),
      entry_size     |-> U16(d, a + 4),
      name_length    |-> U8(d, a + 6),
      type_indicator |-> U8(d, a + 7),
      name           |-> NulStrAt(d, a + 8) ]

(***************************************************************************)
(* Writers used to lay out the images the model opens.                     *)
(***************************************************************************)
W8(a, v) == a :> (v % 256)
W16(a, v) == (a :> (v % 256)) @@ ((a + 1) :> ((v \div 256) % 256))
W32(a, v) == (a :> (v % 256)) @@ ((a + 1) :> ((v \div 256) % 256))
             @@ ((a + 2) :> ((v \div 65536) % 256))
             @@ ((a + 3) :> ((v \div 16777216) % 256))
WStr(a, s) == [x \in a..(a + Len(s) - 1) |-> s[x - a + 1]]

RECURSIVE WWords(_, _)
WWords(a, ws) == IF ws = <<>> THEN <<>>
                 ELSE W32(a, Head(ws)) @@ WWords(a + 4, Tail(ws))

WDirEnt(a, ino, esize, nlen, name) ==
    W32(a, ino) @@ W16(a + 4, esize) @@ W8(a + 6, nlen) @@ W8(a + 7, 0) @@ WStr(a + 8, name)

WInode(a, tp, size, dps, ind, dbl, tpl) ==
    W16(a, tp) @@ W32(a + 4, size) @@ WWords(a + 40, dps)
    @@ W32(a + 88, ind) @@ W32(a + 92, dbl) @@ W32(a + 96, tpl)

\* drops the zero bytes, so that equal memories are equal values
Sparse(f) == [a \in {x \in DOMAIN f : f[x] # 0} |-> f[a]]

(***************************************************************************)
(* The images.  Image1K(j) is a two-group image of 64 blocks of 1024 bytes *)
(* whose on-disk block numbers are those of blocks[] plus j, so that it is *)
(* consistent when it is opened with block_offset = j.  B(i) is the        *)
(* address of blocks[i], P(i) the on-disk number of blocks[i], I(n) the    *)
(* address of inode n.                                                     *)
(*   inode  1  "dev"        block device, no blocks                        *)
(*   inode  2  "/"          root directory                                 *)
(*   inode  3  "sub"        directory                                      *)
(*   inode  4  "hello.txt"  13 bytes in one block                          *)
(*   inode  5  "big"        12 direct blocks, 3 singly-indirect leaves     *)
(*   inode  6  file with a zero second direct pointer                      *)
(*   inode  7  file with a zero indirect pointer, non-zero deeper ones     *)
(*   inode  8  file using all four levels                                  *)
(*   inode  9  directory with 12 direct blocks and an indirect block       *)
(*   inode 10  directory whose first block holds an inode-0 record         *)
(*   inode 11  directory whose first entry_size exceeds the block          *)
(*   inode 12  directory with an entry_size of 0                           *)
(*   inode 13  file whose second direct pointer is out of range            *)
(*   inode 14  file whose indirect block holds an out-of-range number      *)
(*   inode 15  directory with an entry_size below 8 + name_length          *)
(*   inode 16  directory using all four levels                             *)
(***************************************************************************)
Dot == <<46>>
DotDot == <<46, 46>>
NameSub == <<115, 117, 98>>
NameHello == <<104, 101, 108, 108, 111, 46, 116, 120, 116>>
NameBig == <<98, 105, 103>>
NameDev == <<100, 101, 118>>
NameData == <<100, 97, 116, 97>>
NameGreet == <<103, 114, 101, 101, 116, 46, 116, 120, 116>>
NameNone == <<110, 111>>
HelloWorld == <<104, 101, 108, 108, 111, 44, 32, 119, 111, 114, 108, 100, 10>>

\* a data block: its first byte and its last byte tell it from the others
WData(a, bs, tag) == W8(a, tag) @@ W8(a + bs - 1, 255 - tag)

Image1K(j, magic) ==
    LET bs == 1024
        B(i) == 2048 + bs + bs * i
        P(i) == i + j
        I(n) == IF n <= 8 THEN B(1) + SizeofInode * (n - 1)
                ELSE B(2) + SizeofInode * (n - 9)
        Z(k) == [i \in 1..k |-> 0]
        bigDirect == [i \in 1..12 |-> P(5 + i)]
        dirDirect == [i \in 1..12 |-> IF i % 2 = 1 THEN P(32) ELSE P(33)]
        sb == W32(1024, 16) @@ W32(1028, 64) @@ W32(1036, 20) @@ W32(1040, 0)
              @@ W32(1048, 0) @@ W32(1056, 32) @@ W32(1064, 8) @@ W16(1080, magic)
              @@ WStr(1128, <<17, 34, 51, 68>>)
        gdt == W32(2048, P(0)) @@ W32(2052, P(0)) @@ W32(2056, P(1))
               @@ W16(2060, 10) @@ W16(2062, 0) @@ W16(2064, 2)
               @@ W32(2080, P(0)) @@ W32(2084, P(0)) @@ W32(2088, P(2))
               @@ W16(2092, 10) @@ W16(2094, 0) @@ W16(2096, 6)
        inodes ==
               WInode(I(1), 24576, 0, Z(12), 0, 0, 0)
            @@ WInode(I(2), 16384 + 493, 1024, <<P(3)>> \o Z(11), 0, 0, 0)
            @@ WInode(I(3), 16384 + 493, 1024, <<P(4)>> \o Z(11), 0, 0, 0)
            @@ WInode(I(4), 32768 + 420, 13, <<P(5)>> \o Z(11), 0, 0, 0)
            @@ WInode(I(5), 32768 + 420, 15 * bs - 100, bigDirect, P(18), 0, 0)
            @@ WInode(I(6), 32768 + 420, 2 * bs, <<P(22), 0, P(23)>> \o Z(9), P(18), 0, 0)
            @@ WInode(I(7), 32768 + 420, 12 * bs, bigDirect, 0, P(24), P(26))
            @@ WInode(I(8), 32768 + 420, 20 * bs, bigDirect, P(18), P(24), P(26))
            @@ WInode(I(9), 16384 + 493, 14 * bs, dirDirect, P(34), 0, 0)
            @@ WInode(I(10), 16384 + 493, 2 * bs, <<P(44), P(45)>> \o Z(10), 0, 0, 0)
            @@ WInode(I(11), 16384 + 493, 2 * bs, <<P(46), P(47)>> \o Z(10), 0, 0, 0)
            @@ WInode(I(12), 16384 + 493, bs, <<P(49)>> \o Z(11), 0, 0, 0)
            @@ WInode(I(13), 32768 + 420, 2 * bs, <<P(5), 9999>> \o Z(10), 0, 0, 0)
            @@ WInode(I(14), 32768 + 420, 14 * bs, bigDirect, P(50), 0, 0)
            @@ WInode(I(15), 16384 + 493, bs, <<P(48)>> \o Z(11), 0, 0, 0)
            @@ WInode(I(16), 16384 + 493, 20 * bs, dirDirect, P(34), P(37), P(39))
        dirs ==
               WDirEnt(B(3), 2, 12, 1, Dot)
            @@ WDirEnt(B(3) + 12, 2, 12, 2, DotDot)
            @@ WDirEnt(B(3) + 24, 3, 12, 3, NameSub)
            @@ WDirEnt(B(3) + 36, 4, 20, 9, NameHello)
            @@ WDirEnt(B(3) + 56, 5, 12, 3, NameBig)
            @@ WDirEnt(B(3) + 68, 1, bs - 68, 3, NameDev)
            @@ WDirEnt(B(4), 3, 12, 1, Dot)
            @@ WDirEnt(B(4) + 12, 2, 12, 2, DotDot)
            @@ WDirEnt(B(4) + 24, 6, 12, 4, NameData)
            @@ WDirEnt(B(4) + 36, 4, bs - 36, 9, NameGreet)
            @@ WDirEnt(B(32), 20, bs, 1, <<97>>)
            @@ WDirEnt(B(33), 21, bs, 1, <<98>>)
            @@ WDirEnt(B(35), 22, bs, 1, <<99>>)
            @@ WDirEnt(B(36), 23, bs, 1, <<100>>)
            @@ WDirEnt(B(44), 30, 12, 1, <<120>>)
            @@ WDirEnt(B(45), 31, bs, 1, <<121>>)
            @@ WDirEnt(B(46), 40, 2000, 1, <<109>>)
            @@ WDirEnt(B(46) + 12, 41, 12, 1, <<110>>)
            @@ WDirEnt(B(47), 42, bs, 1, <<111>>)
            @@ WDirEnt(B(48), 43, 8, 4, <<119, 120, 121, 122>>)
            @@ W16(B(48) + 12, bs - 8)
            @@ WDirEnt(B(49), 50, 0, 1, <<104>>)
        files ==
               WStr(B(5), HelloWorld)
            @@ WData(B(6), bs, 6) @@ WData(B(7), bs, 7) @@ WData(B(8), bs, 8)
            @@ WData(B(9), bs, 9) @@ WData(B(10), bs, 10) @@ WData(B(11), bs, 11)
            @@ WData(B(12), bs, 12) @@ WData(B(13), bs, 13) @@ WData(B(14), bs, 14)
            @@ WData(B(15), bs, 15) @@ WData(B(16), bs, 16) @@ WData(B(17), bs, 17)
            @@ WData(B(19), bs, 19) @@ WData(B(20), bs, 20) @@ WData(B(21), bs, 21)
            @@ WData(B(22), bs, 22) @@ WData(B(23), bs, 23)
        metas ==
               WWords(B(18), <<P(19), P(20), P(21)>>)
            @@ WWords(B(24), <<P(25), P(28)>>)
            @@ WWords(B(25), <<P(22), P(23)>>)
            @@ WWords(B(26), <<P(27)>>)
            @@ WWords(B(27), <<P(28)>>)
            @@ WWords(B(28), <<P(19)>>)
            @@ WWords(B(34), <<P(35), P(36)>>)
            @@ WWords(B(37), <<P(34), P(38)>>)
            @@ WWords(B(38), <<P(35)>>)
            @@ WWords(B(39), <<P(37), P(37)>>)
            @@ WWords(B(50), <<P(19), 5000>>)
    IN  [ len |-> 64 * bs,
          data |-> Sparse(sb @@ gdt @@ inodes @@ dirs @@ files @@ metas) ]

(***************************************************************************)
(* Image2K(j): one group, 8 blocks of 2048 bytes.  Inode 2 is the root     *)
(* directory, inode 3 a file of 5 bytes, inode 4 a file with an indirect   *)
(* block of two leaves.  It is the image with a free inode: the superblock *)
(* and the group count one (the 1024-byte images are full).                *)
(***************************************************************************)
Image2K(j) ==
    LET bs == 2048
        B(i) == 2048 + bs + bs * i
        P(i) == i + j
        I(n) == B(0) + SizeofInode * (n - 1)
        Z(k) == [i \in 1..k |-> 0]
        sb == W32(1024, 8) @@ W32(1028, 8) @@ W32(1036, 2) @@ W32(1040, 1)
              @@ W32(1048, 1) @@ W32(1056, 8) @@ W32(1064, 8) @@ W16(1080, EXT2_MAGIC)
              @@ WStr(1128, <<85, 102>>)
        gdt == W32(2048, P(0)) @@ W32(2052, P(0)) @@ W32(2056, P(0))
               @@ W16(2060, 2) @@ W16(2062, 1) @@ W16(2064, 1)
        inodes ==
               WInode(I(2), 16384 + 493, bs, <<P(1)>> \o Z(11), 0, 0, 0)
            @@ WInode(I(3), 32768 + 420, 5, <<P(2)>> \o Z(11), 0, 0, 0)
            @@ WInode(I(4), 32768 + 420, 14 * bs, [i \in 1..12 |-> P(2)], P(3), 0, 0)
        dirs ==
               WDirEnt(B(1), 2, 12, 1, Dot)
            @@ WDirEnt(B(1) + 12, 2, 12, 2, DotDot)
            @@ WDirEnt(B(1) + 24, 3, 12, 3, NameBig)
            @@ WDirEnt(B(1) + 36, 4, bs - 36, 3, NameSub)
        files == WStr(B(2), <<104, 101, 108, 108, 111>>) @@ WData(B(4), bs, 4)
        metas == WWords(B(3), <<P(2), P(1)>>)
    IN  [ len |-> 8 * bs,
          data |-> Sparse(sb @@ gdt @@ inodes @@ dirs @@ files @@ metas) ]

(***************************************************************************)
(* The state.                                                              *)
(*   device, start_addr   the byte region handed to Ext2::new, and the     *)
(*                        address the caller names as device block 0       *)
(*   superblock .. block_offset   the fields of struct Ext2; the views are *)
(*                        address ranges of the device                     *)
(*   current_working_inode   of main                                       *)
(*   phase   "boot" before Ext2::new, "opened" after it, "panicked" once a *)
(*           panic has aborted the process, "exited" after quit            *)
(*   last    the most recent library call and what it returned             *)
(*   out     what the most recent shell command wrote to stdout            *)
(*   pc, call_inode, ptr_index, byte_offset, ret   a read_dir_inode call   *)
(*           run one loop iteration at a time                              *)
(***************************************************************************)
VARIABLES device, start_addr, phase,
          superblock, block_groups, blocks, block_size, uuid, block_offset,
          current_working_inode, last, out,
          pc, call_inode, ptr_index, byte_offset, ret

ext2 == <<superblock, block_groups, blocks, block_size, uuid, block_offset>>
stepper == <<pc, call_inode, ptr_index, byte_offset, ret>>
vars == <<device, start_addr, phase, ext2, current_working_inode, last, out, stepper>>

\* what a call, or a part of one, comes to: st is "ok" (it returned Ok),
\* "panic" (an index out of bounds, an arithmetic overflow, a failed assert),
\* "diverge" (a loop that never exits) or "ub" (a read outside the device);
\* out is the value built so far, reads the blocks[] accesses made so far
R(st, o, reads) == [st |-> st, out |-> o, reads |-> reads]

\* one access to blocks[]: the on-disk number followed, the index used, where the
\* number was stored and how the block was read
Ev(num, idx, from, use) == [num |-> num, idx |-> idx, from |-> from, use |-> use]

\* blocks[i] exists (i counts from 0, as in the code)
ValidIdx(i) == i >= 0 /\ i < Len(blocks)

\* the address of the first byte of blocks[i]
BlockStart(i) == blocks[i + 1].start

\* blocks[i] lies inside the device
BlockInDevice(i) == InDevice(device, blocks[i + 1].start, blocks[i + 1].len)

\* the bytes of blocks[i]
BlockBytes(i) == BytesAt(device, blocks[i + 1].start, blocks[i + 1].len)

\* *self.superblock and self.block_groups[g]
SB == SuperblockAt(device, superblock.start)
BlockGroup(g) == BlockGroupDescriptorAt(device, block_groups.start + SizeofBlockGroupDescriptor * g)

\* F(v) with v evaluated once: "let x = v" of the code
Bind(v, F(_)) == CHOOSE r \in {F(x) : x \in {v}} : TRUE

(***************************************************************************)
(* Ext2::get_inode.  out is the address of the inode record returned.      *)
(* inode - 1 with inode = 0, and inode_table_block - block_offset below 0, *)
(* overflow: a panic in a debug build, and in a release build a wrapped    *)
(* index that is out of bounds, which panics too.                          *)
(***************************************************************************)
get_inode_group(inode) == (inode - 1) \div SB.inodes_per_group

\* C9 mutation: the index counted from the inode number, not from inode - 1
C9_IndexFromOne(inode) == inode % SB.inodes_per_group

get_inode_index(inode) == (inode - 1) % SB.inodes_per_group

\* &inode_table[index], for the table at blocks[inode_table_block]
get_inode_record(inode_table_block, index) ==
    BlockStart(inode_table_block) + SizeofInode * index

\* the index into blocks[] of the inode table of the group
get_inode_table(group) == BlockGroup(group).inode_table_block - block_offset

get_inode(inode) ==
    IF inode < 1 \/ SB.inodes_per_group = 0 THEN R("panic", 0, <<>>)
    ELSE IF get_inode_group(inode) >= block_groups.count THEN R("panic", 0, <<>>)
    ELSE Bind(get_inode_table(get_inode_group(inode)), LAMBDA inode_table_block :
         Bind(<<Ev(inode_table_block + block_offset, inode_table_block, "group", "inodes")>>,
              LAMBDA reads :
         IF ~ValidIdx(inode_table_block) THEN R("panic", 0, reads)
         ELSE Bind(get_inode_record(inode_table_block, get_inode_index(inode)), LAMBDA a :
              IF InDevice(device, a, SizeofInode) THEN R("ok", a, reads)
              ELSE R("ub", a, reads))))

(***************************************************************************)
(* The file walk.  out is the Vec<u8> built.                               *)
(***************************************************************************)
\* the index the code uses for the block number it finds in a slot of a meta-block
slot_index(block_num) == block_num

\* C2 mutation: the block put in front of what has been collected
C2_PrependSlice(acc, data) == data \o acc

\* ret.extend_from_slice(data)
extend_from_slice(acc, data) == acc \o data

\* the body of the while loop of read_file_indir_ptr, from byte_offset on
RECURSIVE read_file_indir_loop(_, _, _, _)
read_file_indir_loop(base, off, acc, reads) ==
    IF off >= block_size THEN R("ok", acc, reads)
    ELSE Bind(U32(device, base + off), LAMBDA dir_block_num :
         Bind(Append(reads, Ev(dir_block_num, slot_index(dir_block_num), "slot1", "data")),
              LAMBDA seen :
         IF dir_block_num = 0 THEN R("ok", acc, reads)
         ELSE IF ~ValidIdx(slot_index(dir_block_num)) THEN R("panic", acc, seen)
         ELSE IF ~BlockInDevice(slot_index(dir_block_num)) THEN R("ub", acc, seen)
         ELSE read_file_indir_loop(base, off + SlotBytes,
                  extend_from_slice(acc, BlockBytes(slot_index(dir_block_num))), seen)))

read_file_indir_ptr(block_num) ==
    IF ~ValidIdx(block_num) THEN R("panic", <<>>, <<>>)
    ELSE IF ~BlockInDevice(block_num) THEN R("ub", <<>>, <<>>)
    ELSE read_file_indir_loop(BlockStart(block_num), 0, <<>>, <<>>)

RECURSIVE read_file_doubly_loop(_, _, _, _)
read_file_doubly_loop(base, off, acc, reads) ==
    IF off >= block_size THEN R("ok", acc, reads)
    ELSE Bind(U32(device, base + off), LAMBDA indir_block_num :
         IF indir_block_num = 0 THEN R("ok", acc, reads)
         ELSE Bind(read_file_indir_ptr(slot_index(indir_block_num)), LAMBDA data_from_indir :
              Bind(Append(reads, Ev(indir_block_num, slot_index(indir_block_num),
                                    "slot2", "slots")) \o data_from_indir.reads,
                   LAMBDA seen :
              IF data_from_indir.st # "ok" THEN R(data_from_indir.st, acc, seen)
              ELSE read_file_doubly_loop(base, off + SlotBytes,
                       extend_from_slice(acc, data_from_indir.out), seen))))

read_file_doubly_ptr(block_num) ==
    IF ~ValidIdx(block_num) THEN R("panic", <<>>, <<>>)
    ELSE IF ~BlockInDevice(block_num) THEN R("ub", <<>>, <<>>)
    ELSE read_file_doubly_loop(BlockStart(block_num), 0, <<>>, <<>>)

RECURSIVE read_file_triply_loop(_, _, _, _)
read_file_triply_loop(base, off, acc, reads) ==
    IF off >= block_size THEN R("ok", acc, reads)
    ELSE Bind(U32(device, base + off), LAMBDA doub_indir_block_num :
         IF doub_indir_block_num = 0 THEN R("ok", acc, reads)
         ELSE Bind(read_file_doubly_ptr(slot_index(doub_indir_block_num)),
                   LAMBDA data_from_doubly :
              Bind(Append(reads, Ev(doub_indir_block_num, slot_index(doub_indir_block_num),
                                    "slot3", "slots")) \o data_from_doubly.reads,
                   LAMBDA seen :
              IF data_from_doubly.st # "ok" THEN R(data_from_doubly.st, acc, seen)
              ELSE read_file_triply_loop(base, off + SlotBytes,
                       extend_from_slice(acc, data_from_doubly.out), seen))))

read_file_triply_ptr(block_num) ==
    IF ~ValidIdx(block_num) THEN R("panic", <<>>, <<>>)
    ELSE IF ~BlockInDevice(block_num) THEN R("ub", <<>>, <<>>)
    ELSE read_file_triply_loop(BlockStart(block_num), 0, <<>>, <<>>)

\* C3 mutation: a zero direct pointer ends the for loop only
C3_GoOnAtZero(acc, reads) == R("ok", acc, reads)

\* what the for loop over root.direct_pointer does on a zero pointer: st "return"
\* makes read_file_inode return Ok(ret)
file_zero_pointer(acc, reads) == R("return", acc, reads)

\* the for loop over root.direct_pointer, from pointer i (1..12) on; st "ok" means
\* the loop ran to its end
RECURSIVE read_file_direct_loop(_, _, _, _)
read_file_direct_loop(root, i, acc, reads) ==
    IF i > NumDirect THEN R("ok", acc, reads)
    ELSE IF root.direct_pointer[i] = 0 THEN file_zero_pointer(acc, reads)
    ELSE Bind(root.direct_pointer[i] - block_offset, LAMBDA idx :
         Bind(Append(reads, Ev(root.direct_pointer[i], idx, "direct", "data")), LAMBDA seen :
         IF ~ValidIdx(idx) THEN R("panic", acc, seen)
         ELSE IF ~BlockInDevice(idx) THEN R("ub", acc, seen)
         ELSE read_file_direct_loop(root, i + 1, extend_from_slice(acc, BlockBytes(idx)), seen)))

\* ret.extend_from_slice(&data) after a helper: so is the result so far, ptr the
\* inode's pointer, sub what the helper came to on ptr - block_offset
FileSection(so, ptr, from, sub) ==
    Bind(Append(so.reads, Ev(ptr, ptr - block_offset, from, "slots")) \o sub.reads,
         LAMBDA seen :
         IF sub.st # "ok" THEN R(sub.st, so.out, seen)
         ELSE R("ok", extend_from_slice(so.out, sub.out), seen))

\* read_file_inode from "read triply indirect pointer" on
read_file_from_triply(root, s2) ==
    IF s2.st # "ok" \/ root.triply_indirect = 0 THEN s2
    ELSE Bind(read_file_triply_ptr(root.triply_indirect - block_offset), LAMBDA data :
              FileSection(s2, root.triply_indirect, "triply", data))

\* read_file_inode from "read doubly indirect pointer" on
read_file_from_doubly(root, s1) ==
    IF s1.st # "ok" \/ root.doubly_indirect = 0 THEN s1
    ELSE Bind(read_file_doubly_ptr(root.doubly_indirect - block_offset), LAMBDA data :
         Bind(FileSection(s1, root.doubly_indirect, "doubly", data), LAMBDA s2 :
              read_file_from_triply(root, s2)))

\* read_file_inode from "read indirect pointer" on: d is what the for loop built
read_file_from_indirect(root, d) ==
    IF d.st = "return" THEN R("ok", d.out, d.reads)
    ELSE IF d.st # "ok" \/ root.indirect_pointer = 0 THEN d
    ELSE Bind(read_file_indir_ptr(root.indirect_pointer - block_offset), LAMBDA data :
         Bind(FileSection(d, root.indirect_pointer, "indirect", data), LAMBDA s1 :
              read_file_from_doubly(root, s1)))

read_file_inode(inode) ==
    Bind(get_inode(inode), LAMBDA g :
         IF g.st # "ok" THEN R(g.st, <<>>, g.reads)
         ELSE Bind(InodeAt(device, g.out), LAMBDA root :
              Bind(read_file_direct_loop(root, 1, <<>>, g.reads), LAMBDA d :
                   read_file_from_indirect(root, d))))

(***************************************************************************)
(* The directory walk.  out is the Vec<(usize, &NulStr)> built.  A record  *)
(* with a non-zero inode and an entry_size of 0 leaves byte_offset where   *)
(* it is: the loop pushes the same entry for ever ("diverge").             *)
(***************************************************************************)
\* the record at a and its name lie inside the device
RecordInDevice(a) == InDevice(device, a, 8 + NulStrLen(device, a + 8) + 1)

\* ret.push((directory.inode as usize, &directory.name))
push_entry(acc, directory) == Append(acc, <<directory.inode, directory.name>>)

\* the body of the while loop of read_dir_indir_ptr, from byte_offset on
RECURSIVE read_dir_indir_loop(_, _, _)
read_dir_indir_loop(base, off, acc) ==
    IF off >= block_size THEN R("ok", acc, <<>>)
    ELSE IF ~RecordInDevice(base + off) THEN R("ub", acc, <<>>)
    ELSE Bind(DirectoryEntryAt(device, base + off), LAMBDA directory :
         IF directory.inode = 0 THEN R("ok", acc, <<>>)
         ELSE IF directory.entry_size = 0 THEN R("diverge", push_entry(acc, directory), <<>>)
         ELSE read_dir_indir_loop(base, off + directory.entry_size,
                                  push_entry(acc, directory)))

read_dir_indir_ptr(block_num) ==
    IF ~ValidIdx(block_num) THEN R("panic", <<>>, <<>>)
    ELSE read_dir_indir_loop(BlockStart(block_num), 0, <<>>)

RECURSIVE read_dir_doubly_loop(_, _, _, _)
read_dir_doubly_loop(base, off, acc, reads) ==
    IF off >= block_size THEN R("ok", acc, reads)
    ELSE IF ~RecordInDevice(base + off) THEN R("ub", acc, reads)
    ELSE Bind(DirectoryEntryAt(device, base + off), LAMBDA directory :
         IF directory.inode = 0 THEN R("ok", acc, reads)
         ELSE Bind(read_dir_indir_ptr(directory.inode), LAMBDA data_from_indir :
              Bind(Append(reads, Ev(directory.inode, directory.inode, "slot2", "dirents")),
                   LAMBDA seen :
              IF data_from_indir.st # "ok" THEN R(data_from_indir.st, acc, seen)
              ELSE IF directory.entry_size = 0
                   THEN R("diverge", acc \o data_from_indir.out, seen)
              ELSE read_dir_doubly_loop(base, off + directory.entry_size,
                                        acc \o data_from_indir.out, seen))))

read_dir_doubly_ptr(block_num) ==
    IF ~ValidIdx(block_num) THEN R("panic", <<>>, <<>>)
    ELSE read_dir_doubly_loop(BlockStart(block_num), 0, <<>>, <<>>)

RECURSIVE read_dir_triply_loop(_, _, _, _)
read_dir_triply_loop(base, off, acc, reads) ==
    IF off >= block_size THEN R("ok", acc, reads)
    ELSE IF ~RecordInDevice(base + off) THEN R("ub", acc, reads)
    ELSE Bind(DirectoryEntryAt(device, base + off), LAMBDA directory :
         IF directory.inode = 0 THEN R("ok", acc, reads)
         ELSE Bind(read_dir_doubly_ptr(directory.inode), LAMBDA data_from_doubly :
              Bind(Append(reads, Ev(directory.inode, directory.inode, "slot3", "dirents"))
                   \o data_from_doubly.reads,
                   LAMBDA seen :
              IF data_from_doubly.st # "ok" THEN R(data_from_doubly.st, acc, seen)
              ELSE IF directory.entry_size = 0
                   THEN R("diverge", acc \o data_from_doubly.out, seen)
              ELSE read_dir_triply_loop(base, off + directory.entry_size,
                                        acc \o data_from_doubly.out, seen))))

read_dir_triply_ptr(block_num) ==
    IF ~ValidIdx(block_num) THEN R("panic", <<>>, <<>>)
    ELSE read_dir_triply_loop(BlockStart(block_num), 0, <<>>, <<>>)

\* the while loop over one direct block of read_dir_inode, from byte_offset on;
\* st "ok" means the loop ran off the block, "return" that it met a record with
\* inode 0, on which read_dir_inode returns Ok(ret)
RECURSIVE read_dir_block_loop(_, _, _)
read_dir_block_loop(base, off, acc) ==
    IF off >= block_size THEN R("ok", acc, <<>>)
    ELSE IF ~RecordInDevice(base + off) THEN R("ub", acc, <<>>)
    ELSE Bind(DirectoryEntryAt(device, base + off), LAMBDA directory :
         IF directory.inode = 0 THEN R("return", acc, <<>>)
         ELSE IF directory.entry_size = 0 THEN R("diverge", push_entry(acc, directory), <<>>)
         ELSE read_dir_block_loop(base, off + directory.entry_size,
                                  push_entry(acc, directory)))

\* the for loop over root.direct_pointer, from pointer i (1..12) on
RECURSIVE read_dir_direct_loop(_, _, _, _)
read_dir_direct_loop(root, i, acc, reads) ==
    IF i > NumDirect THEN R("ok", acc, reads)
    ELSE IF root.direct_pointer[i] = 0 THEN R("return", acc, reads)
    ELSE Bind(root.direct_pointer[i] - block_offset, LAMBDA idx :
         Bind(Append(reads, Ev(root.direct_pointer[i], idx, "direct", "dirents")),
              LAMBDA seen :
         IF ~ValidIdx(idx) THEN R("panic", acc, seen)
         ELSE Bind(read_dir_block_loop(BlockStart(idx), 0, acc), LAMBDA b :
              IF b.st # "ok" THEN R(b.st, b.out, seen)
              ELSE read_dir_direct_loop(root, i + 1, b.out, seen))))

\* ret.extend_from_slice(&data) after a helper
DirSection(so, ptr, from, sub) ==
    Bind(Append(so.reads, Ev(ptr, ptr - block_offset, from, "dirents")) \o sub.reads,
         LAMBDA seen :
         IF sub.st # "ok" THEN R(sub.st, so.out, seen)
         ELSE R("ok", so.out \o sub.out, seen))

\* read_dir_inode from "read triply indirect pointer" on
read_dir_from_triply(root, s2) ==
    IF s2.st # "ok" \/ root.triply_indirect = 0 THEN s2
    ELSE Bind(read_dir_triply_ptr(root.triply_indirect - block_offset), LAMBDA data :
              DirSection(s2, root.triply_indirect, "triply", data))

\* read_dir_inode from "read doubly indirect pointer" on
read_dir_from_doubly(root, s1) ==
    IF s1.st # "ok" \/ root.doubly_indirect = 0 THEN s1
    ELSE Bind(read_dir_doubly_ptr(root.doubly_indirect - block_offset), LAMBDA data :
         Bind(DirSection(s1, root.doubly_indirect, "doubly", data), LAMBDA s2 :
              read_dir_from_triply(root, s2)))

\* read_dir_inode from "read indirect pointer" on: d is what the for loop built
read_dir_from_indirect(root, d) ==
    IF d.st = "return" THEN R("ok", d.out, d.reads)
    ELSE IF d.st # "ok" \/ root.indirect_pointer = 0 THEN d
    ELSE Bind(read_dir_indir_ptr(root.indirect_pointer - block_offset), LAMBDA data :
         Bind(DirSection(d, root.indirect_pointer, "indirect", data), LAMBDA s1 :
              read_dir_from_doubly(root, s1)))

read_dir_inode(inode) ==
    Bind(get_inode(inode), LAMBDA g :
         IF g.st # "ok" THEN R(g.st, <<>>, g.reads)
         ELSE Bind(InodeAt(device, g.out), LAMBDA root :
              Bind(read_dir_direct_loop(root, 1, <<>>, g.reads), LAMBDA d :
                   read_dir_from_indirect(root, d))))

(***************************************************************************)
(* Ext2::new.                                                              *)
(***************************************************************************)
\* C8 mutation: no assert on the magic
C8_AnyMagic(sb) == TRUE

\* assert_eq!(superblock.magic, EXT2_MAGIC)
new_magic_ok(sb) == sb.magic = EXT2_MAGIC

\* blocks_count.div_ceil(blocks_per_group)
new_block_group_count(sb) ==
    (sb.blocks_count + sb.blocks_per_group - 1) \div sb.blocks_per_group

\* 1024 << superblock.log_block_size
new_block_size(sb) == BaseBlockSize * 2 ^ sb.log_block_size

\* from_raw_parts(.., blocks_count * block_size).chunks(block_size): the views
\* start right after the block_size bytes taken for the descriptor table
new_blocks(sb) ==
    Bind(new_block_size(sb), LAMBDA bs :
         [i \in 1..sb.blocks_count |->
             [start |-> EXT2_END_OF_SUPERBLOCK + bs + bs * (i - 1), len |-> bs]])

\* the places where Ext2::new panics: split_at past the end, the assert, a
\* division by zero, block_groups[0] and blocks[0] of an empty table, and the
\* subtraction of a start_addr above blocks[0]
new_panics(d, sa, sb) ==
    \/ d.len < EXT2_END_OF_SUPERBLOCK
    \/ ~new_magic_ok(sb)
    \/ sb.blocks_per_group = 0
    \/ d.len - EXT2_END_OF_SUPERBLOCK < new_block_size(sb)
    \/ new_block_group_count(sb) = 0
    \/ sb.blocks_count = 0
    \/ sa > EXT2_END_OF_SUPERBLOCK + new_block_size(sb)

\* the devices main and the callers of the library open, each with the address
\* the caller gives as device block 0: the start of the device, as main does
\* (block_offset 3 for 1024-byte blocks, 2 for 2048-byte blocks), or blocks[0]
\* (block_offset 0).  The on-disk numbers of each image fit its block_offset.
Boots ==
    { [device |-> Image1K(3, EXT2_MAGIC), start_addr |-> 0],
      [device |-> Image1K(0, EXT2_MAGIC), start_addr |-> 3072],
      [device |-> Image1K(3, 4660), start_addr |-> 0],
      [device |-> Image2K(2), start_addr |-> 0] }

NoView == [start |-> 0, len |-> 0]
NoCall == [op |-> "none", arg |-> 0, st |-> "ok", out |-> <<>>, reads |-> <<>>]
Call(op, arg, r) == [op |-> op, arg |-> arg, st |-> r.st, out |-> r.out, reads |-> r.reads]

\* the process after a call that came to st
PhaseAfter(st) == IF st = "ok" THEN "opened"
                  ELSE IF st = "panic" THEN "panicked"
                  ELSE IF st = "diverge" THEN "hung"
                  ELSE "undefined"

Init ==
    /\ \E b \in Boots : device = b.device /\ start_addr = b.start_addr
    /\ phase = "boot"
    /\ superblock = NoView
    /\ block_groups = [start |-> 0, count |-> 0]
    /\ blocks = <<>>
    /\ block_size = 0
    /\ uuid = <<>>
    /\ block_offset = 0
    /\ current_working_inode = ROOT_INODE
    /\ last = NoCall
    /\ out = <<>>
    /\ pc = "idle"
    /\ call_inode = 0
    /\ ptr_index = 0
    /\ byte_offset = 0
    /\ ret = <<>>

New ==
    /\ phase = "boot"
    /\ \E sb \in {SuperblockAt(device, EXT2_START_OF_SUPERBLOCK)} :
           IF new_panics(device, start_addr, sb)
           THEN /\ phase' = "panicked"
                /\ last' = Call("new", 0, R("panic", <<>>, <<>>))
                /\ UNCHANGED ext2
           ELSE /\ phase' = "opened"
                /\ last' = Call("new", 0, R("ok", <<>>, <<>>))
                /\ superblock' = [start |-> EXT2_START_OF_SUPERBLOCK,
                                  len |-> EXT2_END_OF_SUPERBLOCK - EXT2_START_OF_SUPERBLOCK]
                /\ block_groups' = [start |-> EXT2_END_OF_SUPERBLOCK,
                                    count |-> new_block_group_count(sb)]
                /\ blocks' = new_blocks(sb)
                /\ block_size' = new_block_size(sb)
                /\ uuid' = sb.fs_id
                /\ block_offset' = (EXT2_END_OF_SUPERBLOCK + new_block_size(sb) - start_addr)
                                   \div new_block_size(sb)
    /\ UNCHANGED <<device, start_addr, current_working_inode, out, stepper>>

(***************************************************************************)
(* The library calls on an opened image.                                   *)
(***************************************************************************)
Idle == phase = "opened" /\ pc = "idle"

\* C12 mutation: get_inode counts its calls in dirs_count of group 0, through
\* the mutable view of the descriptor table
C12_GetInodeWrites(n) ==
    /\ Idle
    /\ \E r \in {get_inode(n)} :
           /\ last' = Call("get_inode", n, r)
           /\ phase' = PhaseAfter(r.st)
    /\ out' = <<>>
    /\ device' = [device EXCEPT !.data =
                      Sparse(W16(block_groups.start + 16, (BlockGroup(0).dirs_count + 1) % MaxDirs)
                             @@ device.data)]
    /\ UNCHANGED <<start_addr, ext2, current_working_inode, stepper>>

GetInode(n) ==
    /\ Idle
    /\ \E r \in {get_inode(n)} :
           /\ last' = Call("get_inode", n, r)
           /\ phase' = PhaseAfter(r.st)
    /\ out' = <<>>
    /\ UNCHANGED <<device, start_addr, ext2, current_working_inode, stepper>>

ReadFileInode(n) ==
    /\ Idle
    /\ \E r \in {read_file_inode(n)} :
           /\ last' = Call("read_file_inode", n, r)
           /\ phase' = PhaseAfter(r.st)
    /\ out' = <<>>
    /\ UNCHANGED <<device, start_addr, ext2, current_working_inode, stepper>>

(***************************************************************************)
(* read_dir_inode run one loop iteration at a time: DirCall is the entry   *)
(* up to the for loop, DirFor one iteration of the for loop over the       *)
(* direct pointers (and, past the last pointer, the rest of the function), *)
(* DirWhile one iteration of the while loop over a direct block.           *)
(***************************************************************************)
\* root of the call in progress
StepRoot == InodeAt(device, get_inode(call_inode).out)

\* the call in progress returns, panics or leaves the defined behaviour with r
Finish(r) ==
    /\ last' = Call("read_dir_inode", call_inode, r)
    /\ phase' = PhaseAfter(r.st)
    /\ pc' = "idle"
    /\ call_inode' = 0
    /\ ptr_index' = 0
    /\ byte_offset' = 0
    /\ ret' = <<>>

DirCall(n) ==
    /\ Idle
    /\ out' = <<>>
    /\ \E g \in {get_inode(n)} :
           IF g.st # "ok"
           THEN /\ last' = Call("read_dir_inode", n, R(g.st, <<>>, g.reads))
                /\ phase' = PhaseAfter(g.st)
                /\ UNCHANGED stepper
           ELSE /\ last' = Call("read_dir_inode", n, R("running", <<>>, g.reads))
                /\ pc' = "for"
                /\ call_inode' = n
                /\ ptr_index' = 1
                /\ byte_offset' = 0
                /\ ret' = <<>>
                /\ UNCHANGED phase
    /\ UNCHANGED <<device, start_addr, ext2, current_working_inode>>

DirFor ==
    /\ phase = "opened"
    /\ pc = "for"
    /\ \E root \in {StepRoot} :
           IF ptr_index > NumDirect
           THEN Finish(read_dir_from_indirect(root, R("ok", ret, last.reads)))
           ELSE IF root.direct_pointer[ptr_index] = 0
           THEN Finish(R("ok", ret, last.reads))
           ELSE \E idx \in {root.direct_pointer[ptr_index] - block_offset} :
                \E seen \in {Append(last.reads,
                                    Ev(root.direct_pointer[ptr_index], idx, "direct", "dirents"))} :
                    IF ~ValidIdx(idx)
                    THEN Finish(R("panic", ret, seen))
                    ELSE /\ pc' = "while"
                         /\ byte_offset' = 0
                         /\ last' = [last EXCEPT !.reads = seen]
                         /\ UNCHANGED <<phase, call_inode, ptr_index, ret>>
    /\ UNCHANGED <<device, start_addr, ext2, current_working_inode, out>>

\* byte_offset += directory.entry_size as isize
dir_while_advance(off, directory) == off + directory.entry_size

DirWhile ==
    /\ phase = "opened"
    /\ pc = "while"
    /\ \E base \in {BlockStart(StepRoot.direct_pointer[ptr_index] - block_offset)} :
           IF byte_offset >= block_size
           THEN /\ pc' = "for"
                /\ ptr_index' = ptr_index + 1
                /\ UNCHANGED <<phase, last, call_inode, byte_offset, ret>>
           ELSE IF ~RecordInDevice(base + byte_offset)
           THEN Finish(R("ub", ret, last.reads))
           ELSE \E directory \in {DirectoryEntryAt(device, base + byte_offset)} :
                    IF directory.inode = 0
                    THEN Finish(R("ok", ret, last.reads))
                    ELSE /\ Len(ret) < MaxRet
                         /\ byte_offset' = dir_while_advance(byte_offset, directory)
                         /\ ret' = push_entry(ret, directory)
                         /\ UNCHANGED <<phase, last, pc, call_inode, ptr_index>>
    /\ UNCHANGED <<device, start_addr, ext2, current_working_inode, out>>

(***************************************************************************)
(* The shell loop of main.  Every iteration lists the working directory    *)
(* first, then reads a line and dispatches on its first word.  A line is   *)
(* given by argc, the number of its space-separated words, and arg, its    *)
(* second word when it has one.                                            *)
(***************************************************************************)
\* (type_perm & TypePerm::DIRECTORY) == TypePerm::DIRECTORY
is_directory(type_perm) == (type_perm \div DIRECTORY) % 2 = 1

\* what is written to stdout: a line of text and the value formatted into it,
\* the names of ls, raw bytes, or numbers printed one a line
Msg(m, v) == [kind |-> "line", msg |-> m, bytes |-> v, names |-> <<>>]
Names(ns) == [kind |-> "names", msg |-> "", bytes |-> <<>>, names |-> ns]
Bytes(bs) == [kind |-> "bytes", msg |-> "", bytes |-> bs, names |-> <<>>]
Numbers(ns) == [kind |-> "numbers", msg |-> "", bytes |-> ns, names |-> <<>>]

\* the second words typed
ArgNames == {NameSub, NameHello, NameBig, NameDev, NameGreet, NameNone}
Args == {[argc |-> 1, arg |-> <<>>]} \cup {[argc |-> 2, arg |-> a] : a \in ArgNames}
        \cup {[argc |-> 3, arg |-> NameHello]}

\* let dirs = match ext2.read_dir_inode(current_working_inode)
ShellDirs == read_dir_inode(current_working_inode)

\* the listing panicked or never came back
ShellAbort(dirs) ==
    /\ last' = Call("read_dir_inode", current_working_inode, dirs)
    /\ phase' = PhaseAfter(dirs.st)
    /\ out' = <<>>
    /\ UNCHANGED current_working_inode

\* the dir.1 of a listing
NamesOf(dirs) == [i \in 1..Len(dirs) |-> dirs[i][2]]

Ls ==
    /\ Idle
    /\ \E dirs \in {ShellDirs} :
           IF dirs.st # "ok" THEN ShellAbort(dirs)
           ELSE /\ out' = <<Names(NamesOf(dirs.out))>>
                /\ last' = Call("read_dir_inode", current_working_inode, dirs)
                /\ UNCHANGED <<phase, current_working_inode>>
    /\ UNCHANGED <<device, start_addr, ext2, stepper>>

\* what a command loop has come to: st as for a call, cwd the working inode,
\* found the flag, o the lines printed, call the most recent library call
Sh(st, cwd, found, o, call) ==
    [st |-> st, cwd |-> cwd, found |-> found, out |-> o, call |-> call]

\* for dir in &dirs of cd, from entry i on
RECURSIVE cd_loop(_, _, _, _)
cd_loop(dirs, i, to_dir, s) ==
    IF i > Len(dirs) THEN s
    ELSE IF dirs[i][2] # to_dir THEN cd_loop(dirs, i + 1, to_dir, s)
    ELSE Bind(get_inode(dirs[i][1]), LAMBDA g :
         Bind(Call("get_inode", dirs[i][1], g), LAMBDA call :
         IF g.st # "ok" THEN Sh(g.st, s.cwd, s.found, s.out, call)
         ELSE IF is_directory(InodeAt(device, g.out).type_perm)
              THEN cd_loop(dirs, i + 1, to_dir, Sh("ok", dirs[i][1], TRUE, s.out, call))
              ELSE cd_loop(dirs, i + 1, to_dir,
                           Sh("ok", s.cwd, TRUE,
                              Append(s.out, Msg("cd: not a directory: ", dirs[i][2])), call))))

\* the cd branch once dirs is there
cd_body(a, dirs) ==
    IF a.argc = 1
    THEN Sh("ok", ROOT_INODE, FALSE, <<>>, Call("read_dir_inode", current_working_inode, dirs))
    ELSE Bind(cd_loop(dirs.out, 1, a.arg,
                      Sh("ok", current_working_inode, FALSE, <<>>,
                         Call("read_dir_inode", current_working_inode, dirs))),
              LAMBDA s :
              IF s.st = "ok" /\ ~s.found
              THEN [s EXCEPT !.out = Append(@, Msg("unable to locate , cwd unchanged", a.arg))]
              ELSE s)

Cd(a) ==
    /\ Idle
    /\ \E dirs \in {ShellDirs} :
           IF dirs.st # "ok" THEN ShellAbort(dirs)
           ELSE \E s \in {cd_body(a, dirs)} :
                    /\ current_working_inode' = s.cwd
                    /\ out' = s.out
                    /\ last' = s.call
                    /\ phase' = PhaseAfter(s.st)
    /\ UNCHANGED <<device, start_addr, ext2, stepper>>

\* io::stdout().write_all(&content)
cat_write(inode, content) == Bytes(content)

\* for dir in &dirs of cat, from entry i on
RECURSIVE cat_loop(_, _, _, _)
cat_loop(dirs, i, filename, s) ==
    IF i > Len(dirs) THEN s
    ELSE IF dirs[i][2] # filename THEN cat_loop(dirs, i + 1, filename, s)
    ELSE Bind(get_inode(dirs[i][1]), LAMBDA g :
         IF g.st # "ok"
         THEN Sh(g.st, s.cwd, ~s.found, s.out, Call("get_inode", dirs[i][1], g))
         ELSE Bind(InodeAt(device, g.out), LAMBDA inode :
              IF is_directory(inode.type_perm)
              THEN cat_loop(dirs, i + 1, filename,
                            Sh("ok", s.cwd, ~s.found,
                               Append(s.out, Msg("cat: : Is a directory", filename)),
                               Call("get_inode", dirs[i][1], g)))
              ELSE Bind(read_file_inode(dirs[i][1]), LAMBDA content :
                   Bind(Call("read_file_inode", dirs[i][1], content), LAMBDA call :
                   IF content.st # "ok" THEN Sh(content.st, s.cwd, ~s.found, s.out, call)
                   ELSE cat_loop(dirs, i + 1, filename,
                                 Sh("ok", s.cwd, ~s.found,
                                    Append(s.out, cat_write(inode, content.out)), call))))))

\* the cat branch once dirs is there
cat_body(a, dirs) ==
    IF a.argc # 2
    THEN Sh("ok", current_working_inode, FALSE, <<Msg("usage: cat filename", <<>>)>>,
            Call("read_dir_inode", current_working_inode, dirs))
    ELSE Bind(cat_loop(dirs.out, 1, a.arg,
                       Sh("ok", current_working_inode, FALSE, <<>>,
                          Call("read_dir_inode", current_working_inode, dirs))),
              LAMBDA s :
              IF s.st = "ok" /\ ~s.found
              THEN [s EXCEPT !.out = Append(@, Msg("cat: : No such file or directory", a.arg))]
              ELSE s)

Cat(a) ==
    /\ Idle
    /\ \E dirs \in {ShellDirs} :
           IF dirs.st # "ok" THEN ShellAbort(dirs)
           ELSE \E s \in {cat_body(a, dirs)} :
                    /\ out' = s.out
                    /\ last' = s.call
                    /\ phase' = PhaseAfter(s.st)
                    /\ UNCHANGED current_working_inode
    /\ UNCHANGED <<device, start_addr, ext2, stepper>>

\* the first group with a free inode, group 0 when there is none
RECURSIVE mkdir_group_idx(_)
mkdir_group_idx(i) ==
    IF i >= block_groups.count THEN 0
    ELSE IF BlockGroup(i).free_inodes_count > 0 THEN i
    ELSE mkdir_group_idx(i + 1)

\* for dir in &dirs of mkdir, from entry i on: a line for every entry of that
\* name that is a directory (the continue is that of the for loop)
RECURSIVE mkdir_loop(_, _, _, _)
mkdir_loop(dirs, i, dirname, s) ==
    IF i > Len(dirs) THEN s
    ELSE IF dirs[i][2] # dirname THEN mkdir_loop(dirs, i + 1, dirname, s)
    ELSE Bind(get_inode(dirs[i][1]), LAMBDA g :
         Bind(Call("get_inode", dirs[i][1], g), LAMBDA call :
         IF g.st # "ok" THEN Sh(g.st, s.cwd, s.found, s.out, call)
         ELSE IF is_directory(InodeAt(device, g.out).type_perm)
              THEN mkdir_loop(dirs, i + 1, dirname,
                              Sh("ok", s.cwd, s.found,
                                 Append(s.out, Msg("directory name already exists in cwd", <<>>)),
                                 call))
              ELSE mkdir_loop(dirs, i + 1, dirname, Sh("ok", s.cwd, s.found, s.out, call))))

\* MASK << (bit - 1) for the lowest clear bit of a byte that has one
mkdir_mask(byte) ==
    2 ^ ((CHOOSE bit \in 1..8 : /\ (byte \div 2 ^ (bit - 1)) % 2 = 0
                                /\ \A b \in 1..(bit - 1) : (byte \div 2 ^ (b - 1)) % 2 = 1) - 1)

\* the two numbers printed for every byte of the bitmap that has a clear bit,
\* from the last byte to the first
mkdir_scan(bitmap) ==
    Bind(SelectSeq([k \in 1..Len(bitmap) |-> Len(bitmap) + 1 - k],
                   LAMBDA i : bitmap[i] # 255),
         LAMBDA hits :
         [k \in 1..(2 * Len(hits)) |->
             IF k % 2 = 1 THEN bitmap[hits[(k + 1) \div 2]]
             ELSE mkdir_mask(bitmap[hits[k \div 2]])])

\* block_group.free_inodes_count -= 1; block_group.dirs_count += 1
mkdir_update(d, a, bg) ==
    [d EXCEPT !.data = Sparse(W16(a + 14, bg.free_inodes_count - 1 + 65536)
                              @@ W16(a + 16, bg.dirs_count + 1) @@ d.data)]

Mkdir(a) ==
    /\ Idle
    /\ \E dirs \in {ShellDirs} :
       IF dirs.st # "ok" THEN ShellAbort(dirs) /\ UNCHANGED device
       ELSE IF a.argc # 2
       THEN /\ out' = <<Msg("usage: mkdir dirname", <<>>)>>
            /\ last' = Call("read_dir_inode", current_working_inode, dirs)
            /\ UNCHANGED <<phase, current_working_inode, device>>
       ELSE \E s \in {mkdir_loop(dirs.out, 1, a.arg,
                                 Sh("ok", current_working_inode, FALSE, <<>>,
                                    Call("read_dir_inode", current_working_inode, dirs)))} :
            /\ last' = s.call
            /\ UNCHANGED current_working_inode
            /\ IF s.st # "ok"
               THEN phase' = PhaseAfter(s.st) /\ out' = s.out /\ UNCHANGED device
               ELSE IF SB.free_inodes_count < 1
               THEN /\ out' = Append(s.out, Msg("no unallocated inodes available", <<>>))
                    /\ UNCHANGED <<phase, device>>
               ELSE \E group_idx \in {mkdir_group_idx(0)} :
                    \E bg \in {BlockGroup(group_idx)} :
                    IF ~ValidIdx(bg.inode_usage_addr)
                    THEN phase' = "panicked" /\ out' = s.out /\ UNCHANGED device
                    ELSE /\ out' = s.out \o
                                 << Msg("inode_usage_bitmap: ", BlockBytes(bg.inode_usage_addr)),
                                    Msg("inode_usage_bitmap length: ", <<block_size>>),
                                    Numbers(mkdir_scan(BlockBytes(bg.inode_usage_addr))) >>
                         /\ bg.dirs_count < MaxDirs
                         /\ \/ /\ bg.free_inodes_count = 0
                               /\ phase' = "panicked"
                               /\ UNCHANGED device
                            \/ /\ UNCHANGED phase
                               /\ device' = mkdir_update(device,
                                      block_groups.start + SizeofBlockGroupDescriptor * group_idx,
                                      bg)
    /\ UNCHANGED <<start_addr, ext2, stepper>>

\* rm, mount and link print that they are not implemented
Stub(cmd) ==
    /\ Idle
    /\ \E dirs \in {ShellDirs} :
           IF dirs.st # "ok" THEN ShellAbort(dirs)
           ELSE /\ out' = <<Msg(cmd \o " not yet implemented", <<>>)>>
                /\ last' = Call("read_dir_inode", current_working_inode, dirs)
                /\ UNCHANGED <<phase, current_working_inode>>
    /\ UNCHANGED <<device, start_addr, ext2, stepper>>

\* quit or exit, or the end of the input ("bye!"): the loop breaks
Quit(eof) ==
    /\ Idle
    /\ \E dirs \in {ShellDirs} :
           IF dirs.st # "ok" THEN ShellAbort(dirs)
           ELSE /\ out' = IF eof THEN <<Msg("bye!", <<>>)>> ELSE <<>>
                /\ last' = Call("read_dir_inode", current_working_inode, dirs)
                /\ phase' = "exited"
                /\ UNCHANGED current_working_inode
    /\ UNCHANGED <<device, start_addr, ext2, stepper>>

Next ==
    \/ New
    \/ \E n \in 0..MaxInode : GetInode(n)
    \/ \E n \in 0..MaxInode : ReadFileInode(n)
    \/ \E n \in 0..MaxInode : DirCall(n)
    \/ DirFor
    \/ DirWhile
    \/ Ls
    \/ \E a \in Args : Cd(a)
    \/ \E a \in Args : Cat(a)
    \/ \E a \in Args : Mkdir(a)
    \/ \E cmd \in {"rm", "mount", "link"} : Stub(cmd)
    \/ \E eof \in BOOLEAN : Quit(eof)

Spec == Init /\ [][Next]_vars

(***************************************************************************)
(* Properties.                                                             *)
(***************************************************************************)
\* the inode record the most recent call was made on
LastRoot == InodeAt(device, get_inode(last.arg).out)

\* the most recent call is a walk of op that has come to st
LastWalk(op, st) == last.op = op /\ last.st = st

\* C1: every block number that read_file_inode or read_dir_inode follows, from
\* an inode's pointer field or from a slot of a meta-block, is used as the index
\* b - block_offset into blocks[].
C1_TranslatedBeforeIndexing ==
    last.op \in {"read_file_inode", "read_dir_inode"}
        => \A i \in DOMAIN last.reads : last.reads[i].idx = last.reads[i].num - block_offset

\* the concatenation of a sequence of sequences
RECURSIVE C2_Flat(_)
C2_Flat(ss) == IF ss = <<>> THEN <<>> ELSE Head(ss) \o C2_Flat(Tail(ss))

\* the 32-bit slots of the meta-block blocks[m] before its first zero slot, in
\* ascending slot order
C2_Slots(m) ==
    LET n == block_size \div SlotBytes
        w == [k \in 1..n |-> U32(device, BlockStart(m) + SlotBytes * (k - 1))]
        zeros == {k \in 1..n : w[k] = 0}
    IN  IF zeros = {} THEN w
        ELSE SubSeq(w, 1, (CHOOSE k \in zeros : \A z \in zeros : k <= z) - 1)

\* the blocks[] indices of the leaves below a singly-, doubly- and
\* triply-indirect meta-block, depth-first and left to right; the block a slot
\* names is the one the walk indexes with it (C1 is about which one that is)
C2_Leaves1(m) == [k \in DOMAIN C2_Slots(m) |-> slot_index(C2_Slots(m)[k])]
C2_Leaves2(m) == C2_Flat([k \in DOMAIN C2_Slots(m) |-> C2_Leaves1(slot_index(C2_Slots(m)[k]))])
C2_Leaves3(m) == C2_Flat([k \in DOMAIN C2_Slots(m) |-> C2_Leaves2(slot_index(C2_Slots(m)[k]))])

\* the blocks[] indices of the direct pointers before the first zero one
C2_Direct(root) ==
    LET zeros == {k \in 1..NumDirect : root.direct_pointer[k] = 0}
        cnt == IF zeros = {} THEN NumDirect
               ELSE (CHOOSE k \in zeros : \A z \in zeros : k <= z) - 1
    IN  [k \in 1..cnt |-> root.direct_pointer[k] - block_offset]

\* the leaves of a file in the order of the specification: direct, then the
\* singly-, the doubly- and the triply-indirect subtree
C2_Leaves(root) ==
    IF Len(C2_Direct(root)) < NumDirect \/ root.indirect_pointer = 0 THEN C2_Direct(root)
    ELSE C2_Direct(root) \o C2_Leaves1(root.indirect_pointer - block_offset) \o
         (IF root.doubly_indirect = 0 THEN <<>>
          ELSE C2_Leaves2(root.doubly_indirect - block_offset) \o
               (IF root.triply_indirect = 0 THEN <<>>
                ELSE C2_Leaves3(root.triply_indirect - block_offset)))

\* C2: a read_file_inode that returns gives the full blocks of the leaves it
\* reached, concatenated in the order direct pointers, singly-indirect leaves in
\* ascending slot order, doubly-indirect subtree depth-first, triply-indirect
\* subtree; its length is block_size times the number of leaves.
C2_ConcatenationInOrder ==
    LastWalk("read_file_inode", "ok")
        => /\ last.out = C2_Flat([k \in DOMAIN C2_Leaves(LastRoot) |->
                                     BlockBytes(C2_Leaves(LastRoot)[k])])
           /\ Len(last.out) = block_size * Len(C2_Leaves(LastRoot))

\* C2 witness: 12 direct pointers and an indirect block of 3 slots and a zero
\* have given 15 blocks
C2_FifteenBlocks ==
    /\ LastWalk("read_file_inode", "ok")
    /\ LastRoot.indirect_pointer # 0
    /\ LastRoot.doubly_indirect = 0
    /\ Len(C2_Slots(LastRoot.indirect_pointer - block_offset)) = 3
    /\ Len(last.out) = 15 * block_size

\* the accesses of the most recent call to blocks[] that came from one of froms
C3_Visits(froms) == {i \in DOMAIN last.reads : last.reads[i].from \in froms}

\* C3: with k the first index of a zero direct pointer, read_file_inode returns
\* the blocks of direct_pointer[0..k] and nothing else, whatever the later
\* pointers hold; a zero indirect_pointer, or doubly_indirect, ends the walk
\* before a deeper level is visited.
C3_ZeroPointerEndsWalk ==
    LastWalk("read_file_inode", "ok")
        => /\ Len(C2_Direct(LastRoot)) < NumDirect
                => /\ last.out = C2_Flat([k \in DOMAIN C2_Direct(LastRoot) |->
                                             BlockBytes(C2_Direct(LastRoot)[k])])
                   /\ C3_Visits({"indirect", "doubly", "triply",
                                 "slot1", "slot2", "slot3"}) = {}
           /\ LastRoot.indirect_pointer = 0
                => /\ Len(last.out) = block_size * Len(C2_Direct(LastRoot))
                   /\ C3_Visits({"indirect", "doubly", "triply",
                                 "slot1", "slot2", "slot3"}) = {}
           /\ LastRoot.doubly_indirect = 0
                => C3_Visits({"doubly", "triply", "slot2", "slot3"}) = {}

\* C3 witness: a file whose second direct pointer is zero and whose third
\* direct pointer and indirect pointer are not has given its first block only
C3_StoppedAtSecondPointer ==
    /\ LastWalk("read_file_inode", "ok")
    /\ LastRoot.direct_pointer[1] # 0
    /\ LastRoot.direct_pointer[2] = 0
    /\ LastRoot.direct_pointer[3] # 0
    /\ LastRoot.indirect_pointer # 0
    /\ last.out = BlockBytes(LastRoot.direct_pointer[1] - block_offset)

\* C4: read_dir_inode of a directory inode reads the block an indirect,
\* doubly-indirect or triply-indirect pointer names as an array of block
\* numbers; it never decodes that block as directory entries.
C4_MetaBlocksAreSlots ==
    (last.op = "read_dir_inode" /\ last.st # "running" /\ is_directory(LastRoot.type_perm))
        => \A i \in C3_Visits({"indirect", "doubly", "triply"}) : last.reads[i].use = "slots"

\* C5: every iteration of the decode loop of read_dir_inode over a block of a
\* directory inode moves byte_offset forward, whatever entry_size the record
\* holds.
C5_OffsetAdvances ==
    [][(pc = "while" /\ pc' = "while" /\ is_directory(StepRoot.type_perm))
          => byte_offset' > byte_offset]_vars

\* the record the decode loop of the call in progress is at
C6_Record ==
    DirectoryEntryAt(device,
        BlockStart(StepRoot.direct_pointer[ptr_index] - block_offset) + byte_offset)

\* the record breaks entry_size >= 8 + name_length or off + entry_size <= block_size
C6_Malformed(directory, off) ==
    \/ directory.entry_size < 8 + directory.name_length
    \/ off + directory.entry_size > block_size

\* C6: when read_dir_inode of a directory inode decodes a record with
\* entry_size < 8 + name_length or off + entry_size > block_size, the call ends
\* there with an error and returns none of the entries collected.
C6_MalformedEntryIsError ==
    [][(/\ pc = "while"
        /\ is_directory(StepRoot.type_perm)
        /\ byte_offset < block_size
        /\ C6_Record.inode # 0
        /\ C6_Malformed(C6_Record, byte_offset))
          => (pc' = "idle" /\ last'.st = "err" /\ last'.out = <<>>)]_vars

\* C7: when a pointer followed by read_file_inode or read_dir_inode resolves to
\* an index outside blocks[], the call returns an error with no partial result
\* and the process goes on.
C7_OutOfRangeIsError ==
    (/\ last.op \in {"read_file_inode", "read_dir_inode"}
     /\ \E i \in DOMAIN last.reads :
            last.reads[i].from # "group" /\ ~ValidIdx(last.reads[i].idx))
        => (last.st = "err" /\ last.out = <<>> /\ phase = "opened")

\* magic of the superblock of the device
C8_Magic == SuperblockAt(device, EXT2_START_OF_SUPERBLOCK).magic

\* C8: Ext2::new gives an opened image only for the magic 0xEF53; for any other
\* magic it fails before the group table and the block views are built.
C8_BadMagicFailsAtOpen ==
    /\ (phase \notin {"boot", "panicked"} \/ superblock # NoView \/ blocks # <<>>
        \/ block_groups.count # 0)
           => C8_Magic = EXT2_MAGIC
    /\ (phase # "boot" /\ C8_Magic # EXT2_MAGIC)
           => /\ phase = "panicked"
              /\ last.op = "new"
              /\ superblock = NoView
              /\ blocks = <<>>
              /\ block_groups.count = 0

\* C8 witness: Ext2::new has failed on an image with another magic
C8_RefusedBadMagic ==
    /\ last.op = "new"
    /\ phase = "panicked"
    /\ C8_Magic # EXT2_MAGIC
    /\ blocks = <<>>

\* C9: for n in 1..inodes_count, get_inode(n) is record (n-1) mod
\* inodes_per_group of the table at blocks[T - block_offset], T the
\* inode_table_block of group (n-1) / inodes_per_group; the next inode number of
\* the same group is the record sizeof(Inode) further, and another inode number
\* is another record.
C9_InodeLocator ==
    (last.op = "get_inode" /\ last.arg \in 1..SB.inodes_count)
        => /\ last.st = "ok"
           /\ last.out =
                  BlockStart(BlockGroup((last.arg - 1) \div SB.inodes_per_group).inode_table_block
                             - block_offset)
                  + SizeofInode * ((last.arg - 1) % SB.inodes_per_group)
           /\ \A m \in 1..SB.inodes_count :
                  /\ m # last.arg => get_inode(m).out # last.out
                  /\ (/\ m = last.arg + 1
                      /\ (m - 1) \div SB.inodes_per_group
                         = (last.arg - 1) \div SB.inodes_per_group)
                         => get_inode(m).out = last.out + SizeofInode

\* C9 witness: an inode of the second group located with a non-zero block_offset
C9_LocatedInSecondGroup ==
    /\ LastWalk("get_inode", "ok")
    /\ last.arg > SB.inodes_per_group
    /\ last.arg < SB.inodes_count
    /\ block_offset > 0
    /\ last.out = BlockStart(BlockGroup(1).inode_table_block - block_offset)
                  + SizeofInode * (last.arg - 1 - SB.inodes_per_group)

\* n <= size_low | (size_high << 32), for a length n below 2^32
C10_WithinSize(n, inode) == inode.size_high > 0 \/ n <= inode.size_low

\* C10: the bytes of a file that cat writes are those of read_file_inode cut
\* to the size of the file.
C10_CatTruncatesToSize ==
    (LastWalk("read_file_inode", "ok") /\ out # <<>> /\ out[Len(out)].kind = "bytes")
        => C10_WithinSize(Len(out[Len(out)].bytes), LastRoot)

\* name_slice(R): the name_length bytes after the 8-byte header of the record
\* the decode loop of the call in progress is at
C11_NameSlice ==
    BytesAt(device,
            BlockStart(StepRoot.direct_pointer[ptr_index] - block_offset) + byte_offset + 8,
            C6_Record.name_length)

\* C11: every (inode, name) pair that read_dir_inode emits for a well-formed
\* record of a directory has as its name exactly the name_length bytes after the
\* 8-byte header, also when no zero byte follows the name on disk.
C11_NameIsNameLengthBytes ==
    [][(/\ pc = "while"
        /\ is_directory(StepRoot.type_perm)
        /\ Len(ret') = Len(ret) + 1
        /\ ~C6_Malformed(C6_Record, byte_offset))
          => ret'[Len(ret')] = <<C6_Record.inode, C11_NameSlice>>]_vars

\* a step of the read path: a call of get_inode or read_file_inode on the inode
\* number the step records in last, or a step of a call of read_dir_inode
C12_ReadPathStep ==
    \/ last'.op = "get_inode" /\ GetInode(last'.arg)
    \/ last'.op = "read_file_inode" /\ ReadFileInode(last'.arg)
    \/ last'.op = "read_dir_inode" /\ DirCall(last'.arg)
    \/ last'.op = "read_dir_inode" /\ DirFor
    \/ last'.op = "read_dir_inode" /\ DirWhile

\* the descriptors of all groups
C12_Groups == [g \in 0..(block_groups.count - 1) |-> BlockGroup(g)]

\* C12: no step of get_inode, read_dir_inode or read_file_inode changes the
\* superblock, a block group descriptor, a byte of a block, block_size or
\* block_offset.
C12_ReadPathLeavesImage ==
    [][C12_ReadPathStep
          => /\ device' = device
             /\ SB' = SB
             /\ C12_Groups' = C12_Groups
             /\ UNCHANGED <<superblock, block_groups, blocks, block_size, block_offset>>]_vars

\* C12 witness: a read_dir_inode call, three steps of its loops and more behind
\* it, has returned entries on an image whose group 0 still counts what the
\* image was made with
C12_ReadDoneImageIntact ==
    /\ LastWalk("read_dir_inode", "ok")
    /\ pc = "idle"
    /\ out = <<>>
    /\ Len(last.out) >= 3
    /\ \E b \in Boots : device = b.device

\* the entries of one directory block from off on: the decoding halts at the
\* first record with inode 0 or when off reaches block_size
RECURSIVE C13_DecodeBlock(_, _)
C13_DecodeBlock(base, off) ==
    IF off >= block_size THEN <<>>
    ELSE IF DirectoryEntryAt(device, base + off).inode = 0 THEN <<>>
    ELSE IF DirectoryEntryAt(device, base + off).entry_size = 0
         THEN <<<<DirectoryEntryAt(device, base + off).inode,
                  DirectoryEntryAt(device, base + off).name>>>>
    ELSE <<<<DirectoryEntryAt(device, base + off).inode,
             DirectoryEntryAt(device, base + off).name>>>>
         \o C13_DecodeBlock(base, off + DirectoryEntryAt(device, base + off).entry_size)

\* C13: read_dir_inode of a directory with a zero direct pointer returns the
\* entries of each block before that pointer, block after block; a record with
\* inode 0 ends the decoding of its block only.
C13_DecodingIsPerBlock ==
    (/\ LastWalk("read_dir_inode", "ok")
     /\ is_directory(LastRoot.type_perm)
     /\ Len(C2_Direct(LastRoot)) < NumDirect)
        => last.out = C2_Flat([k \in DOMAIN C2_Direct(LastRoot) |->
                                  C13_DecodeBlock(BlockStart(C2_Direct(LastRoot)[k]), 0)])

\* C14: once Ext2::new has opened a device of blocks_count * block_size bytes,
\* the descriptor table and every blocks[i] lie inside the device, and the
\* descriptor table overlaps no blocks[i].
C14_ViewsInsideDevice ==
    (phase = "opened" /\ device.len = SB.blocks_count * block_size)
        => /\ InDevice(device, block_groups.start,
                       SizeofBlockGroupDescriptor * block_groups.count)
           /\ \A i \in 0..(Len(blocks) - 1) :
                  /\ BlockInDevice(i)
                  /\ \/ BlockStart(i) >= block_groups.start
                                         + SizeofBlockGroupDescriptor * block_groups.count
                     \/ BlockStart(i) + block_size <= block_groups.start

\* the file type of type_perm is directory: its high nibble is 0x4
C15_TypeIsDirectory(type_perm) == (type_perm \div 4096) % 16 = DIRECTORY \div 4096

\* the inodes of the entries of the working directory that are directories
C15_Subdirectories ==
    {ShellDirs.out[i][1] : i \in {k \in DOMAIN ShellDirs.out :
        /\ get_inode(ShellDirs.out[k][1]).st = "ok"
        /\ C15_TypeIsDirectory(InodeAt(device, get_inode(ShellDirs.out[k][1]).out).type_perm)}}

\* C15: a shell command leaves current_working_inode as it is, sets it to 2, or
\* sets it to the inode of an entry of the working directory whose file type is
\* directory.
C15_WorkingInodeIsDirectory ==
    [][\/ current_working_inode' = current_working_inode
       \/ current_working_inode' = ROOT_INODE
       \/ current_working_inode' \in C15_Subdirectories]_vars

=============================================================================
